---- MODULE Spec2Model ----
(***************************************************************************)
(* A model of the Zotero-export converter (src/convert_zotero.py) and of   *)
(* the keyword/tag analysis (src/analysis.py).                             *)
(*                                                                         *)
(* Python strings are modelled as sequences of one-character strings, so   *)
(* that splitting, trimming, lower-casing, substring search and sorting    *)
(* are computed character by character as the interpreter computes them.   *)
(* Python dicts are functions whose DOMAIN is the set of keys present.     *)
(***************************************************************************)
EXTENDS Integers, Sequences, FiniteSets, TLC

VARIABLES
    \* ---- extract_tags_from_entry ----
    tpc,          \* position in extract_tags_from_entry
    tentry,       \* the entry passed in
    field_i,      \* index into tag_fields of the field the loop is at
    tags,         \* the local set "tags"
    tag_list,     \* the value returned: sorted(list(tags))
    renormalized, \* the tags of tag_list normalized once more
    \* ---- find_pdf_in_files_folder ----
    apc,          \* position in find_pdf_in_files_folder
    attachments,  \* the attachment tuples the entry's file field was written from
    aentry,       \* the entry passed in
    files_dir,    \* the candidate folder: [exists, listing, unreadable]
    found_pdfs,   \* the local list "found_pdfs"
    method1,      \* what Method 1 had collected when it ended
    glob_i,       \* position of Method 2 in the listing of **/*.pdf
    method2_ran,  \* TRUE once Method 2 has been entered
    pdf_result,   \* the value returned
    \* ---- process_bibtex_export ----
    bpc,          \* position in process_bibtex_export
    export,       \* the export directory and the day: [bib, entries, files_dir, today]
    entry_i,      \* loop index i
    database,     \* the dict "database"
    categories,   \* the dict "categories"
    all_tags,     \* the set "all_tags"
    years,        \* the set "years"
    pdf_count,    \* the counter "pdf_count"
    library,      \* metadata/library.json as written, or Absent
    raised,       \* the exception that left process_bibtex_export, or "none"
    \* ---- group_stats_by_tag / document_references_environment ----
    spc,          \* position in group_stats_by_tag and its callee
    documents,    \* the documents list passed in
    file_text,    \* what text extraction yields for each stored file
    doc_i,        \* index of the document the loop is at
    search_i,     \* index into SEARCH_FIELDS inside the classifier
    tag_env_counts,
    tag_total_counts,
    extracted,    \* indices of documents for which full text was extracted
    relevant,     \* value returned by document_references_environment
    filtered      \* value returned by filter_tags: [env, total]

tagVars   == <<tpc, tentry, field_i, tags, tag_list, renormalized>>
assocVars == <<apc, attachments, aentry, files_dir, found_pdfs, method1, glob_i, method2_ran,
        pdf_result>>
buildVars == <<bpc, export, entry_i, database, categories, all_tags, years, pdf_count, library,
        raised>>
statVars  == <<spc, documents, file_text, doc_i, search_i, tag_env_counts,
               tag_total_counts, extracted, relevant, filtered>>
vars      == <<tagVars, assocVars, buildVars, statVars>>

Absent == <<"absent">>

\* The value of "filtered" before filter_tags has returned
NotFiltered == [env |-> <<>>, total |-> <<>>]

\* The value of each group of variables while another function is the one run
TagsIdle ==
    /\ tpc = "idle" /\ tentry = <<>> /\ field_i = 0 /\ tags = {}
    /\ tag_list = Absent /\ renormalized = Absent

AssocIdle ==
    /\ apc = "idle" /\ attachments = <<>> /\ aentry = <<>> /\ files_dir = <<>> /\ found_pdfs = <<>>
    /\ method1 = <<>> /\ glob_i = 0 /\ method2_ran = FALSE /\ pdf_result = Absent

BuildIdle ==
    /\ bpc = "idle" /\ export = <<>> /\ entry_i = 0 /\ database = <<>>
    /\ categories = <<>> /\ all_tags = {} /\ years = {} /\ pdf_count = 0
    /\ library = Absent /\ raised = "none"

StatIdle ==
    /\ spc = "idle" /\ documents = <<>> /\ file_text = <<>> /\ doc_i = 0
    /\ search_i = 0 /\ tag_env_counts = <<>> /\ tag_total_counts = <<>>
    /\ extracted = {} /\ relevant = FALSE /\ filtered = NotFiltered

(***************************************************************************)
(* Strings                                                                 *)
(***************************************************************************)

\* The characters of the model in code-point order (what sorted() compares).
Ascii ==
    <<"\n", " ", ",", "-", ".", "/",
      "0", "1", "2", "3", "4", "5", "6", "7", "8", "9", ":", ";",
      "A", "B", "C", "D", "E", "F", "G", "H", "I", "J", "K", "L", "M",
      "N", "O", "P", "Q", "R", "S", "T", "U", "V", "W", "X", "Y", "Z", "\\", "_",
      "a", "b", "c", "d", "e", "f", "g", "h", "i", "j", "k", "l", "m",
      "n", "o", "p", "q", "r", "s", "t", "u", "v", "w", "x", "y", "z", "|">>

Ord(c) == CHOOSE k \in 1..Len(Ascii) : Ascii[k] = c

UpperCase == <<"A", "B", "C", "D", "E", "F", "G", "H", "I", "J", "K", "L", "M",
               "N", "O", "P", "Q", "R", "S", "T", "U", "V", "W", "X", "Y", "Z">>
LowerCase == <<"a", "b", "c", "d", "e", "f", "g", "h", "i", "j", "k", "l", "m",
               "n", "o", "p", "q", "r", "s", "t", "u", "v", "w", "x", "y", "z">>

Whitespace == {" ", "\n"}

Range(s) == {s[k] : k \in DOMAIN s}

\* str.lower()
LowerChar(c) ==
    IF \E k \in DOMAIN UpperCase : UpperCase[k] = c
    THEN LowerCase[CHOOSE k \in DOMAIN UpperCase : UpperCase[k] = c]
    ELSE c

Lower(s) == [k \in DOMAIN s |-> LowerChar(s[k])]

\* "sub in s"
Contains(s, sub) ==
    \E k \in 0..(Len(s) - Len(sub)) : SubSeq(s, k + 1, k + Len(sub)) = sub

\* s.endswith(suffix)
EndsWith(s, suffix) ==
    /\ Len(s) >= Len(suffix)
    /\ SubSeq(s, Len(s) - Len(suffix) + 1, Len(s)) = suffix

\* s.find(sep) + 1, or 0 when sep does not occur
Find(s, sep) ==
    IF Contains(s, sep)
    THEN CHOOSE k \in 1..(Len(s) - Len(sep) + 1) :
            /\ SubSeq(s, k, k + Len(sep) - 1) = sep
            /\ \A j \in 1..(k - 1) : SubSeq(s, j, j + Len(sep) - 1) # sep
    ELSE 0

\* s.split(sep): the list of the pieces between occurrences of sep
RECURSIVE Split(_, _)
Split(s, sep) ==
    IF Find(s, sep) = 0
    THEN <<s>>
    ELSE <<SubSeq(s, 1, Find(s, sep) - 1)>>
         \o Split(SubSeq(s, Find(s, sep) + Len(sep), Len(s)), sep)

\* s.strip()
RECURSIVE LStrip(_)
LStrip(s) == IF s # <<>> /\ Head(s) \in Whitespace THEN LStrip(Tail(s)) ELSE s

RECURSIVE RStrip(_)
RStrip(s) ==
    IF s # <<>> /\ s[Len(s)] \in Whitespace THEN RStrip(SubSeq(s, 1, Len(s) - 1)) ELSE s

Strip(s) == RStrip(LStrip(s))

\* a < b for strings, as Python compares them
RECURSIVE StrLess(_, _)
StrLess(a, b) ==
    IF b = <<>> THEN FALSE
    ELSE IF a = <<>> THEN TRUE
    ELSE IF Head(a) = Head(b) THEN StrLess(Tail(a), Tail(b))
    ELSE Ord(Head(a)) < Ord(Head(b))

\* sorted(list(S)) for a set of strings
RECURSIVE Sorted(_)
Sorted(S) ==
    IF S = {} THEN <<>>
    ELSE LET least == CHOOSE x \in S : \A y \in S \ {x} : StrLess(x, y)
         IN  <<least>> \o Sorted(S \ {least})

\* All strings over alphabet of length at most n
RECURSIVE StringsUpTo(_, _)
StringsUpTo(alphabet, n) ==
    IF n = 0 THEN {<<>>}
    ELSE LET shorter == StringsUpTo(alphabet, n - 1)
         IN  shorter \cup {Append(s, c) : s \in shorter, c \in alphabet}

(***************************************************************************)
(* String literals                                                         *)
(***************************************************************************)

\* The string literals of the source, by their text
Lit ==
    [ keywords |-> <<"k","e","y","w","o","r","d","s">>,
      mendeley_tags |-> <<"m","e","n","d","e","l","e","y","-","t","a","g","s">>,
      tags |-> <<"t","a","g","s">>,
      annote |-> <<"a","n","n","o","t","e">>,
      West |-> <<"W","e","s","t">>,
      energy |-> <<"e","n","e","r","g","y">>,
      file |-> <<"f","i","l","e">>,
      ID |-> <<"I","D">>,
      title |-> <<"t","i","t","l","e">>,
      ENTRYTYPE |-> <<"E","N","T","R","Y","T","Y","P","E">>,
      author |-> <<"a","u","t","h","o","r">>,
      article |-> <<"a","r","t","i","c","l","e">>,
      journal_articles |-> <<"j","o","u","r","n","a","l","_","a","r","t","i","c","l","e","s">>,
      inproceedings |-> <<"i","n","p","r","o","c","e","e","d","i","n","g","s">>,
      conference_papers |->
          <<"c","o","n","f","e","r","e","n","c","e","_","p","a","p","e","r","s">>,
      proceedings |-> <<"p","r","o","c","e","e","d","i","n","g","s">>,
      book |-> <<"b","o","o","k">>,
      books |-> <<"b","o","o","k","s">>,
      incollection |-> <<"i","n","c","o","l","l","e","c","t","i","o","n">>,
      book_chapters |-> <<"b","o","o","k","_","c","h","a","p","t","e","r","s">>,
      inbook |-> <<"i","n","b","o","o","k">>,
      techreport |-> <<"t","e","c","h","r","e","p","o","r","t">>,
      reports |-> <<"r","e","p","o","r","t","s">>,
      report |-> <<"r","e","p","o","r","t">>,
      phdthesis |-> <<"p","h","d","t","h","e","s","i","s">>,
      theses |-> <<"t","h","e","s","e","s">>,
      mastersthesis |-> <<"m","a","s","t","e","r","s","t","h","e","s","i","s">>,
      thesis |-> <<"t","h","e","s","i","s">>,
      patent |-> <<"p","a","t","e","n","t">>,
      patents |-> <<"p","a","t","e","n","t","s">>,
      misc |-> <<"m","i","s","c">>,
      miscellaneous |-> <<"m","i","s","c","e","l","l","a","n","e","o","u","s">>,
      unpublished |-> <<"u","n","p","u","b","l","i","s","h","e","d">>,
      preprints |-> <<"p","r","e","p","r","i","n","t","s">>,
      online |-> <<"o","n","l","i","n","e">>,
      web_resources |-> <<"w","e","b","_","r","e","s","o","u","r","c","e","s">>,
      webpage |-> <<"w","e","b","p","a","g","e">>,
      software |-> <<"s","o","f","t","w","a","r","e">>,
      dataset |-> <<"d","a","t","a","s","e","t">>,
      datasets |-> <<"d","a","t","a","s","e","t","s">>,
      uncategorized |-> <<"u","n","c","a","t","e","g","o","r","i","z","e","d">>,
      untitled |-> <<"u","n","t","i","t","l","e","d">>,
      and |-> <<" ","a","n","d"," ">>,
      unknown |-> <<"u","n","k","n","o","w","n">>,
      documents |-> <<"d","o","c","u","m","e","n","t","s","/">>,
      pdf |-> <<".","p","d","f">>,
      journal |-> <<"j","o","u","r","n","a","l">>,
      booktitle |-> <<"b","o","o","k","t","i","t","l","e">>,
      publisher |-> <<"p","u","b","l","i","s","h","e","r">>,
      volume |-> <<"v","o","l","u","m","e">>,
      number |-> <<"n","u","m","b","e","r">>,
      pages |-> <<"p","a","g","e","s">>,
      doi |-> <<"d","o","i">>,
      url |-> <<"u","r","l">>,
      isbn |-> <<"i","s","b","n">>,
      issn |-> <<"i","s","s","n">>,
      abstract |-> <<"a","b","s","t","r","a","c","t">>,
      note |-> <<"n","o","t","e">>,
      doc |-> <<"d","o","c","_">>,
      id |-> <<"i","d">>,
      Untitled |-> <<"U","n","t","i","t","l","e","d">>,
      authors |-> <<"a","u","t","h","o","r","s">>,
      comma_space |-> <<","," ">>,
      year |-> <<"y","e","a","r">>,
      category |-> <<"c","a","t","e","g","o","r","y">>,
      entry_type |-> <<"e","n","t","r","y","_","t","y","p","e">>,
      file_paths |-> <<"f","i","l","e","_","p","a","t","h","s">>,
      has_pdf |-> <<"h","a","s","_","p","d","f">>,
      pdf_count |-> <<"p","d","f","_","c","o","u","n","t">>,
      extra |-> <<"e","x","t","r","a","_">>,
      Research_Library |-> <<"R","e","s","e","a","r","c","h"," ","L","i","b","r","a","r","y">>,
      Converted_from_Zotero_BibTeX_export |->
          <<"C","o","n","v","e","r","t","e","d"," ","f","r","o","m"," ","Z","o","t","e","r",
            "o"," ","B","i","b","T","e","X"," ","e","x","p","o","r","t">>,
      Zotero_BibTeX_Export |->
          <<"Z","o","t","e","r","o"," ","B","i","b","T","e","X"," ","E","x","p","o","r","t",
            " ","(">>,
      State |-> <<"S","t","a","t","e">>,
      environment |-> <<"e","n","v","i","r","o","n","m","e","n","t">>,
      climate |-> <<"c","l","i","m","a","t","e">>,
      sustainability |-> <<"s","u","s","t","a","i","n","a","b","i","l","i","t","y">>,
      carbon |-> <<"c","a","r","b","o","n">>,
      emission |-> <<"e","m","i","s","s","i","o","n">>,
      renewable |-> <<"r","e","n","e","w","a","b","l","e">>,
      net_zero |-> <<"n","e","t"," ","z","e","r","o">>,
      green |-> <<"g","r","e","e","n">>,
      extra_keywords |-> <<"e","x","t","r","a","_","k","e","y","w","o","r","d","s">>,
      AIPolicies_db |-> <<"A","I","P","o","l","i","c","i","e","s","_","d","b","/">>,
      html |-> <<".","h","t","m","l">>,
      City |-> <<"C","i","t","y">>,
      Midwest2 |-> <<"M","i","d","w","e","s","t">>,
      Northeast |-> <<"N","o","r","t","h","e","a","s","t">>,
      Pacific |-> <<"P","a","c","i","f","i","c">>,
      South |-> <<"S","o","u","t","h">> ]

\* The texts of the inputs the functions are run on, by their text
Txt ==
    [ State_City_West |-> <<"S","t","a","t","e",","," ","C","i","t","y","|","W","e","s","t">>,
      Midwest |-> <<" ","M","i","d","w","e","s","t"," ">>,
      b_c |-> <<"b","|","c">>,
      a_b |-> <<"a",";"," ","b">>,
      policy |-> <<"p","o","l","i","c","y">>,
      climate_energy |-> <<"c","l","i","m","a","t","e",";","e","n","e","r","g","y">>,
      policy_climate |-> <<"p","o","l","i","c","y",","," ","c","l","i","m","a","t","e">>,
      p_pdf |-> <<"p",".","p","d","f">>,
      A_p_pdf |-> <<"A","/","p",".","p","d","f">>,
      Full_Text_PDF |-> <<"F","u","l","l"," ","T","e","x","t"," ","P","D","F">>,
      q_PDF |-> <<"q",".","P","D","F">>,
      B_q_PDF |-> <<"B","/","q",".","P","D","F">>,
      C_p_pdf |-> <<"C","/","p",".","p","d","f">>,
      n_pdf |-> <<"n",".","p","d","f">>,
      a_n_pdf |-> <<"a",":","n",".","p","d","f">>,
      p_pdf2 |-> <<"p",".","p","d","f"," ">>,
      A_p_pdf2 |-> <<" ",".","/","A","/","p",".","p","d","f">>,
      s1_pdf |-> <<"s","1",".","p","d","f">>,
      zero_pdf |-> <<"z","e","r","o",".","p","d","f">>,
      S1 |-> <<"S","1">>,
      Net_Zero_Pathways |->
          <<"N","e","t"," ","Z","e","r","o"," ","P","a","t","h","w","a","y","s">>,
      p_pdf_A_p_pdf_application_pdf |->
          <<"p",".","p","d","f",":","A","/","p",".","p","d","f",":","a","p","p","l","i","c",
            "a","t","i","o","n","/","p","d","f">>,
      smith2021 |-> <<"s","m","i","t","h","2","0","2","1">>,
      Smith_John_and_Doe_Ann |->
          <<"S","m","i","t","h",","," ","J","o","h","n"," ","a","n","d"," ","D","o","e",",",
            " ","A","n","n">>,
      t2021 |-> <<"2","0","2","1">>,
      Energy_Policy |-> <<"E","n","e","r","g","y"," ","P","o","l","i","c","y">>,
      Report |-> <<"R","e","p","o","r","t">>,
      State_AI_Plan |-> <<"S","t","a","t","e"," ","A","I"," ","P","l","a","n">>,
      doc_1 |-> <<"d","o","c","_","1">>,
      booklet |-> <<"b","o","o","k","l","e","t">>,
      lee2019 |-> <<"l","e","e","2","0","1","9">>,
      City_Green_Code |-> <<"C","i","t","y"," ","G","r","e","e","n"," ","C","o","d","e">>,
      t2019 |-> <<"2","0","1","9">>,
      carbon_budget |-> <<"c","a","r","b","o","n"," ","b","u","d","g","e","t">>,
      Ann_Lee |-> <<"A","n","n"," ","L","e","e">>,
      State_City |-> <<"S","t","a","t","e",";","C","i","t","y">>,
      My_Library_bib |-> <<"M","y"," ","L","i","b","r","a","r","y",".","b","i","b">>,
      t2026_11_01 |-> <<"2","0","2","6","-","1","1","-","0","1">>,
      Carbon_Plan |-> <<"C","a","r","b","o","n"," ","P","l","a","n">>,
      documents_a_pdf |-> <<"d","o","c","u","m","e","n","t","s","/","a",".","p","d","f">>,
      AI_Act |-> <<"A","I"," ","A","c","t">>,
      documents_c_txt |-> <<"d","o","c","u","m","e","n","t","s","/","c",".","t","x","t">>,
      documents_bs_b_HTML |->
          <<"d","o","c","u","m","e","n","t","s","\\","b",".","H","T","M","L">>,
      Plan |-> <<"P","l","a","n">>,
      Energy_AI |-> <<"E","n","e","r","g","y",";"," ","A","I">>,
      Audit |-> <<"A","u","d","i","t">>,
      documents_gone_pdf |->
          <<"d","o","c","u","m","e","n","t","s","/","g","o","n","e",".","p","d","f">>,
      a_green_code |-> <<"a"," ","g","r","e","e","n"," ","c","o","d","e">>,
      AIPolicies_db_documents_a_pdf |->
          <<"A","I","P","o","l","i","c","i","e","s","_","d","b","/","d","o","c","u","m","e",
            "n","t","s","/","a",".","p","d","f">>,
      budget_nl_rules |-> <<"b","u","d","g","e","t","\n","r","u","l","e","s">>,
      AIPolicies_db_documents_b_HTML |->
          <<"A","I","P","o","l","i","c","i","e","s","_","d","b","/","d","o","c","u","m","e",
            "n","t","s","/","b",".","H","T","M","L">>,
      Net_Zero_goals |-> <<"N","e","t"," ","Z","e","r","o"," ","g","o","a","l","s">>,
      AIPolicies_db_documents_c_txt |->
          <<"A","I","P","o","l","i","c","i","e","s","_","d","b","/","d","o","c","u","m","e",
            "n","t","s","/","c",".","t","x","t">>,
      Emission_rules |-> <<"E","m","i","s","s","i","o","n"," ","r","u","l","e","s">> ]

(***************************************************************************)
(* extract_tags_from_entry                                                 *)
(***************************************************************************)

tag_fields ==
    << Lit.keywords,
       Lit.mendeley_tags,
       Lit.tags,
       Lit.annote >>

delimiters == << <<";">>, <<",">>, <<"\n">>, <<"|">> >>

\* The delimiters of the list that occur in tag_text, by position in the list
DelimitersIn(tag_text) == {d \in DOMAIN delimiters : Contains(tag_text, delimiters[d])}

\* The "else" of the delimiter loop: the whole text is one tag
SingleTag(tag_text) ==
    IF Strip(tag_text) # <<>> THEN {Strip(tag_text)} ELSE {}

FirstDelimiterMutant(tag_text) ==
    CHOOSE d \in DelimitersIn(tag_text) :
        \A e \in DelimitersIn(tag_text) :
            Find(tag_text, delimiters[d]) <= Find(tag_text, delimiters[e])

\* The delimiter the loop breaks at: the first of the list that occurs
FirstDelimiter(tag_text) ==
    CHOOSE d \in DelimitersIn(tag_text) : \A e \in DelimitersIn(tag_text) : d <= e

FieldTagsMutant(tag_text) ==
    IF DelimitersIn(tag_text) # {}
    THEN Range(Split(tag_text, delimiters[FirstDelimiter(tag_text)])) \ {<<>>}
    ELSE SingleTag(tag_text)

\* One pass of the loop body for a field that is present: the tags it adds
FieldTags(tag_text) ==
    IF DelimitersIn(tag_text) # {}
    THEN {Strip(piece) :
            piece \in Range(Split(tag_text, delimiters[FirstDelimiter(tag_text)]))} \ {<<>>}
    ELSE SingleTag(tag_text)

\* The raw texts of the 'keywords' field: every text over TagAlphabet of at
\* most MaxTagText characters, and the texts of TagExamples.
MaxTagText == 3

TagAlphabet == {"a", ";", ",", "|", " ", "\n"}

PolicyClimateEnergy ==
    <<"p","o","l","i","c","y",","," ","c","l","i","m","a","t","e",";","e","n","e","r","g","y">>

TagExamples ==
    { PolicyClimateEnergy,
      Txt.State_City_West,
      Txt.Midwest }

KeywordTexts == StringsUpTo(TagAlphabet, MaxTagText) \cup TagExamples

\* The raw text of each other tag field, when the entry has it
OtherText(field) ==
    IF field = tag_fields[2] THEN Txt.b_c
    ELSE IF field = tag_fields[3] THEN Txt.a_b
    ELSE Lit.West

TagEntry(keywords, others) ==
    [field \in (IF keywords = Absent THEN {} ELSE {tag_fields[1]}) \cup others |->
        IF field = tag_fields[1] THEN keywords ELSE OtherText(field)]

TagEntries ==
    {TagEntry(keywords, others) :
        keywords \in KeywordTexts \cup {Absent},
        others \in SUBSET {tag_fields[2], tag_fields[3], tag_fields[4]}}

TagsInit ==
    /\ tpc = "loop"
    /\ tentry \in TagEntries
    /\ field_i = 1
    /\ tags = {}
    /\ tag_list = Absent
    /\ renormalized = Absent

\* for field in tag_fields: if field in entry: ...   (one iteration)
TagField ==
    /\ tpc = "loop"
    /\ field_i <= Len(tag_fields)
    /\ tags' = IF tag_fields[field_i] \in DOMAIN tentry
               THEN tags \cup FieldTags(tentry[tag_fields[field_i]])
               ELSE tags
    /\ field_i' = field_i + 1
    /\ UNCHANGED <<tpc, tentry, tag_list, renormalized, assocVars, buildVars, statVars>>

\* return sorted(list(tags))
TagReturn ==
    /\ tpc = "loop"
    /\ field_i > Len(tag_fields)
    /\ tag_list' = Sorted(tags)
    /\ tpc' = "returned"
    /\ UNCHANGED <<tentry, field_i, tags, renormalized, assocVars, buildVars, statVars>>

\* The returned tags normalized again, each one as the text of a tag field
TagRenormalize ==
    /\ tpc = "returned"
    /\ renormalized' = Sorted(UNION {FieldTags(tag_list[k]) : k \in DOMAIN tag_list})
    /\ tpc' = "renormalized"
    /\ UNCHANGED <<tentry, field_i, tags, tag_list, assocVars, buildVars, statVars>>

TagsNext == TagField \/ TagReturn \/ TagRenormalize

InitTags == TagsInit /\ AssocIdle /\ BuildIdle /\ StatIdle

SpecTags == InitTags /\ [][TagsNext]_vars

(***************************************************************************)
(* Properties of extract_tags_from_entry                                   *)
(***************************************************************************)

OnlyKeywords(text) == [field \in {tag_fields[1]} |-> text]

\* C5 as stated: "policy, climate;energy" normalizes to exactly the tag set
\* {"policy", "climate;energy"}, the comma being the delimiter honoured.
C5_CommaHonoured ==
    (tpc = "returned" /\ tentry = OnlyKeywords(PolicyClimateEnergy))
        => Range(tag_list) = { Txt.policy,
                               Txt.climate_energy }

\* C5 amended: the delimiter honoured is the first of the list ; , \n | that
\* occurs in the text, here the semicolon, and the comma stays inside a token:
\* "policy, climate;energy" normalizes to the list ["energy", "policy, climate"].
C5_FirstListedDelimiter ==
    (tpc = "returned" /\ tentry = OnlyKeywords(PolicyClimateEnergy))
        => tag_list = << Lit.energy,
                         Txt.policy_climate >>

C5_Witness ==
    /\ tpc = "returned"
    /\ tentry = OnlyKeywords(PolicyClimateEnergy)
    /\ Len(tag_list) = 2

\* C6 as stated: normalizing the returned tags again returns exactly them.
C6_Idempotent ==
    tpc = "renormalized" => renormalized = tag_list

\* C6 amended: normalizing the returned tags again returns exactly them if and
\* only if none of them contains one of the delimiters ; , \n |.
C6_IdempotentWithoutDelimiters ==
    tpc = "renormalized"
        => (renormalized = tag_list
                <=> \A k \in DOMAIN tag_list : DelimitersIn(tag_list[k]) = {})

C6_Witness ==
    /\ tpc = "renormalized"
    /\ Len(tag_list) >= 2
    /\ \A k \in DOMAIN tag_list : DelimitersIn(tag_list[k]) = {}
    /\ \E field \in DOMAIN tentry : DelimitersIn(tentry[field]) # {}
    /\ renormalized = tag_list

(***************************************************************************)
(* parse_zotero_file_field and find_pdf_in_files_folder                    *)
(***************************************************************************)

KeyFile  == Lit.file
KeyID    == Lit.ID
KeyTitle == Lit.title
DotPdf   == <<".","p","d","f">>

\* sep.join(pieces)
RECURSIVE JoinStr(_, _)
JoinStr(sep, pieces) ==
    IF pieces = <<>> THEN <<>>
    ELSE IF Len(pieces) = 1 THEN pieces[1]
    ELSE pieces[1] \o sep \o JoinStr(sep, Tail(pieces))

\* s.split(): the maximal runs of non-whitespace characters
RECURSIVE Words(_)
Words(s) ==
    LET t == LStrip(s)
        n == IF \E k \in DOMAIN t : t[k] \in Whitespace
             THEN (CHOOSE k \in DOMAIN t :
                      t[k] \in Whitespace /\ \A j \in 1..(k - 1) : t[j] \notin Whitespace) - 1
             ELSE Len(t)
    IN  IF t = <<>> THEN <<>>
        ELSE <<SubSeq(t, 1, n)>> \o Words(SubSeq(t, n + 1, Len(t)))

\* seq[:n]
Take(seq, n) == IF Len(seq) <= n THEN seq ELSE SubSeq(seq, 1, n)

\* The folder files_dir: whether it exists and, when it does, the relative
\* paths of the files under it in the order the file system enumerates them.

\* files_path / path: pathlib drops empty and "." components; an absolute
\* path replaces files_path and keeps its leading "/".
PathUnder(path) ==
    LET IsName(c) == c # <<>> /\ c # <<".">>
        names == JoinStr(<<"/">>, SelectSeq(Split(path, <<"/">>), IsName))
    IN  IF path # <<>> /\ Head(path) = "/" THEN <<"/">> \o names ELSE names

\* Path.exists(): a file of the folder, a directory of it, or the folder itself
PathExists(listing, p) ==
    \/ p = <<>>
    \/ \E k \in DOMAIN listing :
          \/ listing[k] = p
          \/ /\ Len(listing[k]) > Len(p)
             /\ SubSeq(listing[k], 1, Len(p) + 1) = p \o <<"/">>

\* pdf_file.name
Name(p) == Split(p, <<"/">>)[Len(Split(p, <<"/">>))]

\* files_path.glob("**/" + pattern) for a pattern without wildcards
GlobNamed(listing, pattern) ==
    LET Matches(f) == f = pattern \/ EndsWith(f, <<"/">> \o pattern)
    IN  SelectSeq(listing, Matches)

\* files_path.glob('**/*.pdf')
GlobPdf(listing) ==
    LET Matches(f) == Len(Name(f)) >= Len(DotPdf) /\ EndsWith(Name(f), DotPdf)
    IN  SelectSeq(listing, Matches)

\* parse_zotero_file_field(file_field)
ParseZoteroFileField(file_field) ==
    IF file_field = <<>> THEN <<>>
    ELSE LET parts == Split(file_field, <<";">>)
             Info(part) ==
                 [filename |-> Strip(Split(part, <<":">>)[1]),
                  path     |-> Strip(Split(part, <<":">>)[2])]
             Keep(part) ==
                 /\ Contains(part, <<":">>)
                 /\ Len(Split(part, <<":">>)) >= 2
                 /\ Info(part).filename # <<>>
                 /\ Info(part).path # <<>>
             kept == SelectSeq(parts, Keep)
         IN  [k \in DOMAIN kept |-> Info(kept[k])]

Method1FilesMutant(listing, file_info) ==
    IF EndsWith(file_info.filename, DotPdf)
    THEN IF PathExists(listing, PathUnder(file_info.path))
         THEN <<PathUnder(file_info.path)>>
         ELSE GlobNamed(listing, file_info.filename)
    ELSE <<>>

\* What Method 1 appends for one parsed file_info
Method1Files(listing, file_info) ==
    IF EndsWith(Lower(file_info.filename), DotPdf)
    THEN IF PathExists(listing, PathUnder(file_info.path))
         THEN <<PathUnder(file_info.path)>>
         ELSE GlobNamed(listing, file_info.filename)
    ELSE <<>>

RECURSIVE Concat(_)
Concat(lists) == IF lists = <<>> THEN <<>> ELSE Head(lists) \o Concat(Tail(lists))

\* Method 1: found_pdfs after the "if 'file' in entry" block
Method1(entry, listing) ==
    IF KeyFile \in DOMAIN entry
    THEN LET zotero_files == ParseZoteroFileField(entry[KeyFile])
         IN  Concat([k \in DOMAIN zotero_files |-> Method1Files(listing, zotero_files[k])])
    ELSE <<>>

\* entry.get(key, default)
Get(entry, key, default) == IF key \in DOMAIN entry THEN entry[key] ELSE default

\* Method 2, one file of the glob: whether the file is appended
Method2Accepts(entry, pdf_file) ==
    LET entry_id       == Get(entry, KeyID, <<>>)
        title          == Get(entry, KeyTitle, <<>>)
        filename_lower == Lower(Name(pdf_file))
        LongWord(w)    == Len(w) > 3
        long_words     == SelectSeq(Words(title), LongWord)
        title_words    == [k \in DOMAIN long_words |-> Lower(long_words[k])]
    IN  \/ entry_id # <<>> /\ Contains(filename_lower, Lower(entry_id))
        \/ /\ title # <<>>
           /\ \E k \in DOMAIN Take(title_words, 3) : Contains(filename_lower, title_words[k])

Method2NeededMutant(found) == TRUE

\* "if not found_pdfs": whether Method 2 is entered
Method2Needed(found) == found = <<>>

\* Method 2 as a whole: what it appends, in glob order
Method2(entry, listing) ==
    LET Accepts(f) == Method2Accepts(entry, f)
    IN  SelectSeq(GlobPdf(listing), Accepts)

\* find_pdf_in_files_folder(entry, files_dir) as a function of its arguments
FindPdfInFilesFolder(entry, dir) ==
    IF ~dir.exists THEN <<>>
    ELSE IF Method2Needed(Method1(entry, dir.listing))
         THEN Method1(entry, dir.listing) \o Method2(entry, dir.listing)
         ELSE Method1(entry, dir.listing)


\* ---- the inputs find_pdf_in_files_folder is run on ----

MaxAttachments == 2

MimePdf == <<"a","p","p","l","i","c","a","t","i","o","n","/","p","d","f">>

\* Attachments as Zotero records them: (title or filename, path, mimetype)
AttachmentPool ==
    { [filename |-> Txt.p_pdf,
       path |-> Txt.A_p_pdf, mimetype |-> MimePdf],
      [filename |-> Txt.Full_Text_PDF,
       path |-> Txt.A_p_pdf, mimetype |-> MimePdf],
      [filename |-> Txt.q_PDF,
       path |-> Txt.B_q_PDF, mimetype |-> MimePdf],
      [filename |-> Txt.p_pdf,
       path |-> Txt.C_p_pdf, mimetype |-> MimePdf],
      [filename |-> Txt.n_pdf,
       path |-> Txt.a_n_pdf, mimetype |-> MimePdf],
      [filename |-> Txt.p_pdf2,
       path |-> Txt.A_p_pdf2, mimetype |-> MimePdf] }

\* The files that may lie under files_dir, in one enumeration order
FilePool ==
    << Txt.A_p_pdf,
       Txt.B_q_PDF,
       Txt.a_n_pdf,
       Txt.s1_pdf,
       Txt.zero_pdf >>

Reverse(seq) == [k \in DOMAIN seq |-> seq[Len(seq) + 1 - k]]

\* The listings: the first n files of FilePool, in either enumeration order
Listings ==
    {Take(FilePool, n) : n \in 0..Len(FilePool)}
        \cup {Take(Reverse(FilePool), n) : n \in 0..Len(FilePool)}

FilesDirs ==
    {[exists |-> FALSE, listing |-> <<>>, unreadable |-> {}]}
        \cup {[exists |-> TRUE, listing |-> l, unreadable |-> {}] : l \in Listings}

\* The file field Zotero writes: "filename:path:mimetype" joined by ";"
FormatFileField(tuples) ==
    JoinStr(<<";">>, [k \in DOMAIN tuples |->
                tuples[k].filename \o <<":">> \o tuples[k].path \o <<":">> \o tuples[k].mimetype])

AttachmentLists ==
    UNION {[1..n -> AttachmentPool] : n \in 0..MaxAttachments}

EntryIDs    == {Absent, Txt.S1}
EntryTitles == {Absent, Txt.Net_Zero_Pathways}

\* The dict with the keys whose value is not Absent
Dict(keys, value) == [k \in {j \in keys : value[j] # Absent} |-> value[k]]

AssocEntry(file, id, title) ==
    Dict({KeyFile, KeyID, KeyTitle},
         [k \in {KeyFile, KeyID, KeyTitle} |->
            IF k = KeyFile THEN file ELSE IF k = KeyID THEN id ELSE title])

AssocInit ==
    /\ apc = "start"
    /\ attachments \in AttachmentLists
    /\ \E has_file \in BOOLEAN, id \in EntryIDs, title \in EntryTitles :
          /\ has_file \/ attachments = <<>>
          /\ aentry = AssocEntry(IF has_file THEN FormatFileField(attachments) ELSE Absent,
                                 id, title)
    /\ files_dir \in FilesDirs
    /\ found_pdfs = <<>>
    /\ method1 = <<>>
    /\ glob_i = 0
    /\ method2_ran = FALSE
    /\ pdf_result = Absent

\* if not files_dir or not os.path.exists(files_dir): return []
AssocNoFolder ==
    /\ apc = "start"
    /\ ~files_dir.exists
    /\ pdf_result' = <<>>
    /\ apc' = "returned"
    /\ UNCHANGED <<attachments, aentry, files_dir, found_pdfs, method1, glob_i, method2_ran>>
    /\ UNCHANGED <<tagVars, buildVars, statVars>>

\* Method 1: Use file field if available
AssocMethod1 ==
    /\ apc = "start"
    /\ files_dir.exists
    /\ found_pdfs' = Method1(aentry, files_dir.listing)
    /\ method1' = found_pdfs'
    /\ apc' = "method1_done"
    /\ UNCHANGED <<attachments, aentry, files_dir, glob_i, method2_ran, pdf_result>>
    /\ UNCHANGED <<tagVars, buildVars, statVars>>

\* if not found_pdfs: ... for pdf_file in files_path.glob('**/*.pdf'):
AssocMethod2Enter ==
    /\ apc = "method1_done"
    /\ Method2Needed(found_pdfs)
    /\ method2_ran' = TRUE
    /\ glob_i' = 1
    /\ apc' = "method2"
    /\ UNCHANGED <<attachments, aentry, files_dir, found_pdfs, method1, pdf_result>>
    /\ UNCHANGED <<tagVars, buildVars, statVars>>

\* One iteration of the Method 2 loop
AssocMethod2File ==
    /\ apc = "method2"
    /\ glob_i <= Len(GlobPdf(files_dir.listing))
    /\ found_pdfs' = IF Method2Accepts(aentry, GlobPdf(files_dir.listing)[glob_i])
                     THEN Append(found_pdfs, GlobPdf(files_dir.listing)[glob_i])
                     ELSE found_pdfs
    /\ glob_i' = glob_i + 1
    /\ UNCHANGED <<apc, attachments, aentry, files_dir, method1, method2_ran, pdf_result>>
    /\ UNCHANGED <<tagVars, buildVars, statVars>>

\* return found_pdfs
AssocReturn ==
    /\ \/ apc = "method1_done" /\ ~Method2Needed(found_pdfs)
       \/ apc = "method2" /\ glob_i > Len(GlobPdf(files_dir.listing))
    /\ pdf_result' = found_pdfs
    /\ apc' = "returned"
    /\ UNCHANGED <<attachments, aentry, files_dir, found_pdfs, method1, glob_i, method2_ran>>
    /\ UNCHANGED <<tagVars, buildVars, statVars>>

AssocNext ==
    AssocNoFolder \/ AssocMethod1 \/ AssocMethod2Enter \/ AssocMethod2File \/ AssocReturn

InitAssoc == AssocInit /\ TagsIdle /\ BuildIdle /\ StatIdle

SpecAssoc == InitAssoc /\ [][AssocNext]_vars

\* The steps return what the function computes from its arguments
AssocStepsAgree ==
    apc = "returned" => pdf_result = FindPdfInFilesFolder(aentry, files_dir)


(***************************************************************************)
(* Properties of find_pdf_in_files_folder                                  *)
(***************************************************************************)

\* C1: Method 2 (the scan of all *.pdf files) is entered only when Method 1
\* (the file field) collected nothing, and whenever Method 1 collected a file
\* the value returned is exactly Method 1's list.
C1_Method2OnlyAfterEmptyMethod1 ==
    /\ method2_ran => method1 = <<>>
    /\ apc = "method2" => method1 = <<>>
    /\ (apc = "returned" /\ method1 # <<>>) => pdf_result = method1

\* Method 1 collected a file, Method 2 would have added one, and it did not run
C1_Witness ==
    /\ apc = "returned"
    /\ files_dir.exists
    /\ method1 # <<>>
    /\ Method2(aentry, files_dir.listing) # <<>>
    /\ Range(Method2(aentry, files_dir.listing)) \cap Range(pdf_result) = {}
    /\ ~method2_ran

HasSeparator(s) == Contains(s, <<":">>) \/ Contains(s, <<";">>)

\* C2 as stated: every tuple of the file field whose path names an existing
\* file of the folder has that file in the result, whatever its filename is.
C2_ExistingPathAlwaysIncluded ==
    (apc = "returned" /\ KeyFile \in DOMAIN aentry /\ files_dir.exists)
        => \A k \in DOMAIN attachments :
              PathUnder(attachments[k].path) \in Range(files_dir.listing)
                  => PathUnder(attachments[k].path) \in Range(pdf_result)

\* C2 amended: a tuple whose filename, trimmed, ends in ".pdf" in any letter
\* case, whose filename and path contain neither ":" nor ";", and whose path,
\* trimmed, names an existing file of the folder has that file in the result,
\* whatever the other tuples of the field are.
C2_ExistingPdfPathIncluded ==
    (apc = "returned" /\ KeyFile \in DOMAIN aentry /\ files_dir.exists)
        => \A k \in DOMAIN attachments :
              ( /\ EndsWith(Lower(Strip(attachments[k].filename)), DotPdf)
                /\ ~HasSeparator(attachments[k].filename)
                /\ ~HasSeparator(attachments[k].path)
                /\ PathUnder(Strip(attachments[k].path)) \in Range(files_dir.listing) )
                  => PathUnder(Strip(attachments[k].path)) \in Range(pdf_result)

\* A field of two tuples: an upper-case "q.PDF" with an existing path, which is
\* in the result, next to a tuple whose filename does not end in ".pdf"
C2_Witness ==
    /\ apc = "returned"
    /\ files_dir.exists
    /\ Len(attachments) = 2
    /\ ~EndsWith(Lower(Strip(attachments[1].filename)), DotPdf)
    /\ EndsWith(Lower(attachments[2].filename), DotPdf)
    /\ ~EndsWith(attachments[2].filename, DotPdf)
    /\ PathUnder(attachments[2].path) \in Range(files_dir.listing)
    /\ PathUnder(attachments[2].path) \in Range(pdf_result)


(***************************************************************************)
(* categorize_entry, clean_filename, organize_pdf_files                    *)
(***************************************************************************)

KeyEntryType == Lit.ENTRYTYPE
KeyAuthor    == Lit.author
KeyYear      == <<"y","e","a","r">>

\* The dict "categories" of categorize_entry, as (entry type, category) pairs
CategoryTable ==
    << <<Lit.article, Lit.journal_articles>>,
       <<Lit.inproceedings, Lit.conference_papers>>,
       <<Lit.proceedings, Lit.conference_papers>>,
       <<Lit.book, Lit.books>>,
       <<Lit.incollection, Lit.book_chapters>>,
       <<Lit.inbook, Lit.book_chapters>>,
       <<Lit.techreport, Lit.reports>>,
       <<Lit.report, Lit.reports>>,
       <<Lit.phdthesis, Lit.theses>>,
       <<Lit.mastersthesis, Lit.theses>>,
       <<Lit.thesis, Lit.theses>>,
       <<Lit.patent, Lit.patents>>,
       <<Lit.misc, Lit.miscellaneous>>,
       <<Lit.unpublished, Lit.preprints>>,
       <<Lit.online, Lit.web_resources>>,
       <<Lit.webpage, Lit.web_resources>>,
       <<Lit.software, Lit.software>>,
       <<Lit.dataset, Lit.datasets>> >>

\* categorize_entry(entry)
CategorizeEntry(entry) ==
    LET entry_type == Lower(Get(entry, KeyEntryType, <<>>))
    IN  IF \E k \in DOMAIN CategoryTable : CategoryTable[k][1] = entry_type
        THEN CategoryTable[CHOOSE k \in DOMAIN CategoryTable :
                               CategoryTable[k][1] = entry_type][2]
        ELSE Lit.uncategorized

FilenameLimit == 80

\* \w of the regular expressions: letters, digits and the underscore
WordChars ==
    Range(UpperCase) \cup Range(LowerCase)
        \cup {"0", "1", "2", "3", "4", "5", "6", "7", "8", "9", "_"}

\* re.sub(r'\s+', '_', text)
RECURSIVE CollapseWhitespace(_)
CollapseWhitespace(text) ==
    IF text = <<>> THEN <<>>
    ELSE IF Head(text) \in Whitespace
         THEN <<"_">> \o CollapseWhitespace(LStrip(text))
         ELSE <<Head(text)>> \o CollapseWhitespace(Tail(text))

\* clean_filename(text)
CleanFilename(text) ==
    IF text = <<>> THEN Lit.untitled
    ELSE LET NotProblematic(c) == c \notin {":", "/", "|"}
             Kept(c) == c \in WordChars \/ c \in Whitespace \/ c = "-"
         IN  Take(SelectSeq(CollapseWhitespace(SelectSeq(text, NotProblematic)), Kept),
                  FilenameLimit)

\* str(n) for n >= 0
RECURSIVE Str(_)
Str(n) ==
    LET digit == <<Ascii[Ord("0") + (n % 10)]>>
    IN  IF n < 10 THEN digit ELSE Str(n \div 10) \o digit

\* The first author as organize_pdf_files cuts it out of entry['author'],
\* before it takes the last name
FirstAuthorText(author_text) ==
    IF Contains(author_text, Lit.and)
    THEN Split(author_text, Lit.and)[1]
    ELSE Split(author_text, <<",">>)[1]

\* first_author.split()[-1] raises IndexError: the text has no word
AuthorRaises(entry) ==
    /\ KeyAuthor \in DOMAIN entry
    /\ ~Contains(FirstAuthorText(entry[KeyAuthor]), <<",">>)
    /\ Words(FirstAuthorText(entry[KeyAuthor])) = <<>>

\* first_author of organize_pdf_files, when no exception is raised
FirstAuthor(entry) ==
    IF KeyAuthor \in DOMAIN entry
    THEN LET first == FirstAuthorText(entry[KeyAuthor])
         IN  CleanFilename(IF Contains(first, <<",">>)
                           THEN Strip(Split(first, <<",">>)[1])
                           ELSE Words(first)[Len(Words(first))])
    ELSE <<>>

\* The relative paths organize_pdf_files returns when every copy succeeds
OrganizedFiles(pdf_files, entry) ==
    LET year == Get(entry, KeyYear, Lit.unknown)
        base_filename ==
            FirstAuthor(entry) \o <<"_">> \o year \o <<"_">>
                \o CleanFilename(Get(entry, KeyTitle, Lit.untitled))
    IN  [k \in DOMAIN pdf_files |->
            PathUnder(Lit.documents
                        \o CategorizeEntry(entry) \o <<"/">> \o year \o <<"/">>
                        \o base_filename
                        \o (IF Len(pdf_files) > 1 THEN <<"_">> \o Str(k) ELSE <<>>)
                        \o Lit.pdf)]

\* shutil.copy2(pdf_file, target_path) raises: the source is a directory, or
\* a file the process cannot read
CopyRaises(dir, pdf_file) ==
    \/ pdf_file \notin Range(dir.listing)
    \/ pdf_file \in dir.unreadable

\* organize_pdf_files raises instead of returning
OrganizeRaises(pdf_files, entry, dir) ==
    /\ pdf_files # <<>>
    /\ \/ AuthorRaises(entry)
       \/ \E k \in DOMAIN pdf_files : CopyRaises(dir, pdf_files[k])


(***************************************************************************)
(* process_bibtex_export                                                   *)
(***************************************************************************)

\* s.replace(old, new)
Replace(s, old, new) == JoinStr(new, Split(s, old))

\* The entry keys copied into the record under their own name, '' if missing
CopiedKeys ==
    { Lit.journal, Lit.booktitle, Lit.publisher, Lit.volume, Lit.number, Lit.pages,
      Lit.doi, Lit.url, Lit.isbn, Lit.issn, Lit.abstract, Lit.note }

\* The entry keys that never become an extra_<key> of the record
MappedKeys ==
    CopiedKeys \cup {KeyID, KeyEntryType, KeyTitle, KeyAuthor, KeyYear, KeyFile}

\* "id": entry.get('ID', f"doc_{i}")
DocId(entry, i) == Get(entry, KeyID, Lit.doc \o Str(i))

\* The document record of entry number i (counted from 0)
Doc(entry, i, doc_tags, organized_files) ==
    LET extra == {key \in DOMAIN entry : key \notin MappedKeys /\ entry[key] # <<>>}
        fixed == [key \in CopiedKeys |-> Get(entry, key, <<>>)]
        own ==
            (Lit.id :> DocId(entry, i))
            @@ (Lit.title :> Get(entry, KeyTitle, Lit.Untitled))
            @@ (Lit.authors :> Replace(Get(entry, KeyAuthor, <<>>), Lit.and, Lit.comma_space))
            @@ (Lit.year :> Get(entry, KeyYear, <<>>))
            @@ (Lit.tags :> doc_tags)
            @@ (Lit.category :> CategorizeEntry(entry))
            @@ (Lit.entry_type :> Get(entry, KeyEntryType, <<>>))
            @@ (Lit.file_paths :> organized_files)
            @@ (Lit.has_pdf :> (Len(organized_files) > 0))
            @@ (Lit.pdf_count :> Len(organized_files))
    IN  [key \in {Lit.extra \o k : k \in extra} |-> entry[SubSeq(key, 7, Len(key))]]
        @@ own @@ fixed

\* extract_tags_from_entry(entry) as a function of its argument
ExtractTagsFromEntry(entry) ==
    Sorted(UNION {FieldTags(entry[tag_fields[k]]) :
                    k \in {j \in DOMAIN tag_fields : tag_fields[j] \in DOMAIN entry}})

CountCategoryMutant(counts, category) ==
    (category :> 1) @@ counts

\* categories[category] = categories.get(category, 0) + 1
CountCategory(counts, category) ==
    (category :> (Get(counts, category, 0) + 1)) @@ counts

YearsAddMutant(seen, year) == seen \cup {year}

\* if year: years.add(year)
YearsAdd(seen, year) == IF year # <<>> THEN seen \cup {year} ELSE seen

\* The entry the loop is at, and what the calls of the loop body return for it
ThisEntry      == export.entries[entry_i + 1]
ThisTags       == ExtractTagsFromEntry(ThisEntry)
ThisPdfFiles   == FindPdfInFilesFolder(ThisEntry, export.files_dir)
ThisDoc        == Doc(ThisEntry, entry_i, ThisTags, OrganizedFiles(ThisPdfFiles, ThisEntry))

\* bib_files is empty: raise FileNotFoundError
BuildNoBib ==
    /\ bpc = "start"
    /\ export.bib = Absent
    /\ bpc' = "aborted"
    /\ raised' = "FileNotFoundError"
    /\ UNCHANGED <<export, entry_i, database, categories, all_tags, years, pdf_count, library>>
    /\ UNCHANGED <<tagVars, assocVars, statVars>>

\* The .bib file is parsed and the database initialized
BuildStart ==
    /\ bpc = "start"
    /\ export.bib # Absent
    /\ database' = [info |-> [title |-> Lit.Research_Library,
                              description |-> Lit.Converted_from_Zotero_BibTeX_export,
                              total_documents |-> Len(export.entries),
                              created |-> export.today,
                              source |-> Lit.Zotero_BibTeX_Export \o export.bib \o <<")">>],
                    documents |-> <<>>]
    /\ categories' = <<>>
    /\ all_tags' = {}
    /\ years' = {}
    /\ pdf_count' = 0
    /\ entry_i' = 0
    /\ bpc' = "loop"
    /\ UNCHANGED <<export, library, raised>>
    /\ UNCHANGED <<tagVars, assocVars, statVars>>

\* One iteration of "for i, entry in enumerate(bib_database.entries)"
BuildEntry ==
    /\ bpc = "loop"
    /\ entry_i < Len(export.entries)
    /\ ~OrganizeRaises(ThisPdfFiles, ThisEntry, export.files_dir)
    /\ all_tags' = all_tags \cup Range(ThisTags)
    /\ pdf_count' = IF ThisDoc[Lit.file_paths] # <<>> THEN pdf_count + 1 ELSE pdf_count
    /\ years' = YearsAdd(years, Get(ThisEntry, KeyYear, <<>>))
    /\ categories' = CountCategory(categories, CategorizeEntry(ThisEntry))
    /\ database' = [database EXCEPT !.documents = Append(@, ThisDoc)]
    /\ entry_i' = entry_i + 1
    /\ UNCHANGED <<bpc, export, library, raised>>
    /\ UNCHANGED <<tagVars, assocVars, statVars>>

\* An iteration in which organize_pdf_files raises: nothing catches the
\* exception inside process_bibtex_export
BuildEntryRaises ==
    /\ bpc = "loop"
    /\ entry_i < Len(export.entries)
    /\ OrganizeRaises(ThisPdfFiles, ThisEntry, export.files_dir)
    /\ all_tags' = all_tags \cup Range(ThisTags)
    /\ raised' = IF AuthorRaises(ThisEntry) THEN "IndexError" ELSE "OSError"
    /\ bpc' = "aborted"
    /\ UNCHANGED <<export, entry_i, database, categories, years, pdf_count, library>>
    /\ UNCHANGED <<tagVars, assocVars, statVars>>

\* After the loop: the statistics are stored and the library is written
BuildFinish ==
    /\ bpc = "loop"
    /\ entry_i = Len(export.entries)
    /\ database' = [database EXCEPT !.info =
                        [title |-> @.title,
                         description |-> @.description,
                         total_documents |-> @.total_documents,
                         created |-> @.created,
                         source |-> @.source,
                         categories |-> categories,
                         total_tags |-> Cardinality(all_tags),
                         years |-> Sorted(years),
                         with_pdfs |-> pdf_count]]
    /\ library' = database'
    /\ bpc' = "done"
    /\ UNCHANGED <<export, entry_i, categories, all_tags, years, pdf_count, raised>>
    /\ UNCHANGED <<tagVars, assocVars, statVars>>

BuildNext == BuildNoBib \/ BuildStart \/ BuildEntry \/ BuildEntryRaises \/ BuildFinish


\* ---- the exports process_bibtex_export is run on ----

MaxEntries == 3

FilePdfA == Txt.p_pdf_A_p_pdf_application_pdf
FilePdfB == <<"q",".","P","D","F",":","B","/","q",".","P","D","F",":","a","p","p","l","i","c",
        "a","t","i","o","n","/","p","d","f">>

EntryPool ==
    { (KeyID :> Txt.smith2021) @@ (KeyEntryType :> Lit.article)
        @@ (KeyTitle :> Txt.Net_Zero_Pathways)
        @@ (KeyAuthor :> Txt.Smith_John_and_Doe_Ann) @@ (KeyYear :> Txt.t2021)
        @@ (Lit.journal :> Txt.Energy_Policy)
        @@ (Lit.keywords :> PolicyClimateEnergy) @@ (KeyFile :> FilePdfA),
      (KeyEntryType :> Txt.Report) @@ (KeyTitle :> Txt.State_AI_Plan)
        @@ (Lit.tags :> Lit.State),
      (KeyID :> Txt.doc_1) @@ (KeyEntryType :> Txt.booklet) @@ (KeyYear :> <<>>),
      (KeyID :> Txt.lee2019) @@ (KeyEntryType :> Lit.techreport)
        @@ (KeyTitle :> Txt.City_Green_Code) @@ (KeyAuthor :> <<>>)
        @@ (KeyYear :> Txt.t2019) @@ (Lit.note :> Txt.carbon_budget)
        @@ (KeyFile :> FilePdfB),
      (KeyAuthor :> Txt.Ann_Lee) @@ (KeyYear :> Txt.t2021)
        @@ (Lit.keywords :> Txt.State_City)
        @@ (KeyFile :> FilePdfA \o <<";">> \o FilePdfB) }

ExportFiles == << Txt.A_p_pdf, Txt.B_q_PDF >>

ExportFilesDirs ==
    { [exists |-> FALSE, listing |-> <<>>, unreadable |-> {}],
      [exists |-> TRUE, listing |-> ExportFiles, unreadable |-> {}],
      [exists |-> TRUE, listing |-> ExportFiles, unreadable |-> {ExportFiles[1]}] }

BuildInit ==
    /\ bpc = "start"
    /\ \E bib \in {Absent, Txt.My_Library_bib},
          entries \in UNION {[1..n -> EntryPool] : n \in 0..MaxEntries},
          dir \in ExportFilesDirs :
          /\ bib = Absent => entries = <<>>
          /\ export = [bib |-> bib, entries |-> entries, files_dir |-> dir,
                       today |-> Txt.t2026_11_01]
    /\ entry_i = 0
    /\ database = <<>>
    /\ categories = <<>>
    /\ all_tags = {}
    /\ years = {}
    /\ pdf_count = 0
    /\ library = Absent
    /\ raised = "none"

InitBuild == BuildInit /\ TagsIdle /\ AssocIdle /\ StatIdle

SpecBuild == InitBuild /\ [][BuildNext]_vars

(***************************************************************************)
(* Properties of process_bibtex_export                                     *)
(***************************************************************************)

RECURSIVE SumCounts(_)
SumCounts(counts) ==
    IF DOMAIN counts = {} THEN 0
    ELSE LET key == CHOOSE k \in DOMAIN counts : TRUE
         IN  counts[key] + SumCounts([k \in DOMAIN counts \ {key} |-> counts[k]])

\* C3: the id of a document whose entry has no 'ID' (doc_<index>) differs from
\* the id of every other document of the library.
C3_PositionalIdUnique ==
    bpc = "done" =>
        \A j, k \in DOMAIN library.documents :
            (j # k /\ KeyID \notin DOMAIN export.entries[j])
                => library.documents[j][Lit.id] # library.documents[k][Lit.id]

\* C4: only a missing .bib file aborts the run; a failure met while one entry
\* or file is handled never leaves process_bibtex_export.
C4_OnlyMissingBibAborts ==
    bpc = "aborted" => (export.bib = Absent /\ raised = "FileNotFoundError")

\* C8: every summary value of database['info'] in the written library equals
\* the value recomputed from the documents list alone.
C8_SummaryRecomputable ==
    bpc = "done" =>
        LET docs == library.documents
            info == library.info
            With(key, value) == {k \in DOMAIN docs : docs[k][key] = value}
        IN  /\ info.total_documents = Len(docs)
            /\ DOMAIN info.categories = {docs[k][Lit.category] : k \in DOMAIN docs}
            /\ \A c \in DOMAIN info.categories :
                  info.categories[c] = Cardinality(With(Lit.category, c))
            /\ info.with_pdfs = Cardinality(With(Lit.has_pdf, TRUE))
            /\ info.with_pdfs = Cardinality({k \in DOMAIN docs : docs[k][Lit.file_paths] # <<>>})
            /\ info.years = Sorted({docs[k][Lit.year] : k \in DOMAIN docs} \ {<<>>})
            /\ info.total_tags =
                  Cardinality(UNION {Range(docs[k][Lit.tags]) : k \in DOMAIN docs})

\* A written library with a document with files, one without, one with an
\* empty year, two years, and a category counted twice
C8_Witness ==
    /\ bpc = "done"
    /\ \E k \in DOMAIN library.documents : library.documents[k][Lit.has_pdf]
    /\ \E k \in DOMAIN library.documents : ~library.documents[k][Lit.has_pdf]
    /\ \E k \in DOMAIN library.documents : library.documents[k][Lit.year] = <<>>
    /\ Len(library.info.years) >= 1
    /\ library.info.total_tags >= 2
    /\ library.info.with_pdfs >= 1

\* C9: N entries yield exactly N documents, the k-th document made from the
\* k-th entry, and the category counts sum to N; inside the loop the same
\* holds of the entries handled so far.
C9_OneDocumentPerEntry ==
    /\ bpc = "done" =>
          /\ Len(library.documents) = Len(export.entries)
          /\ SumCounts(library.info.categories) = Len(export.entries)
          /\ \A k \in DOMAIN library.documents :
                /\ library.documents[k][Lit.id]
                      = Get(export.entries[k], KeyID, Lit.doc \o Str(k - 1))
                /\ library.documents[k][Lit.title] = Get(export.entries[k], KeyTitle, Lit.Untitled)
                /\ library.documents[k][Lit.entry_type] = Get(export.entries[k], KeyEntryType, <<>>)
    /\ bpc = "loop" =>
          /\ Len(database.documents) = entry_i
          /\ SumCounts(categories) = entry_i

\* A library of two or more entries, one of them without ID, entry type, tags
\* of its own category, another with files, and two in the same category
C9_Witness ==
    /\ bpc = "done"
    /\ Len(export.entries) >= 2
    /\ \E k \in DOMAIN export.entries :
          KeyID \notin DOMAIN export.entries[k] /\ KeyEntryType \notin DOMAIN export.entries[k]
    /\ \E k \in DOMAIN library.documents : library.documents[k][Lit.file_paths] # <<>>
    /\ \E k \in DOMAIN library.documents : library.documents[k][Lit.tags] = <<>>
    /\ \E c \in DOMAIN library.info.categories : library.info.categories[c] >= 2


(***************************************************************************)
(* analysis.py: document_references_environment, group_stats_by_tag,       *)
(* filter_tags                                                             *)
(***************************************************************************)

KEYWORDS ==
    << Lit.environment, Lit.climate, Lit.energy, Lit.sustainability,
       Lit.carbon, Lit.emission, Lit.renewable, Lit.net_zero, Lit.green >>

SEARCH_FIELDS == << Lit.title, Lit.abstract, Lit.note, Lit.extra_keywords >>

KeyTags      == Lit.tags
KeyFilePaths == <<"f","i","l","e","_","p","a","t","h","s">>

\* for kw in KEYWORDS: if kw in text: return True
HasKeyword(text) == \E k \in DOMAIN KEYWORDS : Contains(text, KEYWORDS[k])

FieldMatchesMutant(doc, field) ==
    /\ Get(doc, field, <<>>) # <<>>
    /\ HasKeyword(Get(doc, field, <<>>))

\* One metadata field of the scan: the value is non-empty and its lower-cased
\* text holds a keyword
FieldMatches(doc, field) ==
    /\ Get(doc, field, <<>>) # <<>>
    /\ HasKeyword(Lower(Get(doc, field, <<>>)))

\* extract_text_from_pdf / extract_text_from_html: the text of the file, and
\* '' when reading it raises
ExtractText(texts, abs_path) == Get(texts, abs_path, <<>>)

\* extract_fulltext_from_files(file_paths)
RECURSIVE ExtractFulltextFromFiles(_, _)
ExtractFulltextFromFiles(texts, file_paths) ==
    IF file_paths = <<>> THEN <<>>
    ELSE LET abs_path == Lit.AIPolicies_db \o Replace(Head(file_paths), <<"\\">>, <<"/">>)
             text == IF EndsWith(Lower(abs_path), Lit.pdf) \/ EndsWith(Lower(abs_path), Lit.html)
                     THEN ExtractText(texts, abs_path) \o <<"\n">>
                     ELSE <<>>
         IN  text \o ExtractFulltextFromFiles(texts, Tail(file_paths))

\* counts[tag] += 1 for each tag of the list, on a defaultdict(int)
RECURSIVE AddEach(_, _)
AddEach(counts, tag_seq) ==
    IF tag_seq = <<>> THEN counts
    ELSE AddEach((Head(tag_seq) :> (Get(counts, Head(tag_seq), 0) + 1)) @@ counts,
                 Tail(tag_seq))

TotalCountsMutant(counts, doc) == AddEach(counts, Sorted(Range(Get(doc, KeyTags, <<>>))))

\* for tag in tags: tag_total_counts[tag] += 1
TotalCounts(counts, doc) == AddEach(counts, Get(doc, KeyTags, <<>>))

\* if document_references_environment(doc): for tag in tags: tag_env_counts[tag] += 1
EnvCounts(counts, doc, is_relevant) ==
    IF is_relevant THEN AddEach(counts, Get(doc, KeyTags, <<>>)) ELSE counts

\* filter_tags(tag_env_counts, tag_total_counts, filter_set)
FilterTags(env_counts, total_counts, filter_set) ==
    [env   |-> [tag \in filter_set |-> Get(env_counts, tag, 0)],
     total |-> [tag \in filter_set |-> Get(total_counts, tag, 0)]]

\* ---- the libraries group_stats_by_tag is run on ----

MaxDocuments == 3

DocPool ==
    { (KeyTitle :> Txt.Carbon_Plan) @@ (Lit.abstract :> <<>>) @@ (Lit.note :> <<>>)
        @@ (KeyTags :> <<Lit.State, Lit.State>>)
        @@ (KeyFilePaths :> <<Txt.documents_a_pdf>>),
      (KeyTitle :> Txt.AI_Act) @@ (Lit.abstract :> <<>>) @@ (Lit.note :> <<>>)
        @@ (KeyTags :> <<Lit.City, Lit.State>>)
        @@ (KeyFilePaths :> <<Txt.documents_c_txt, Txt.documents_bs_b_HTML>>),
      (KeyTitle :> Txt.AI_Act) @@ (Lit.abstract :> <<>>) @@ (Lit.note :> <<>>)
        @@ (KeyTags :> <<>>) @@ (KeyFilePaths :> <<>>),
      (KeyTitle :> Txt.Plan) @@ (Lit.abstract :> <<>>) @@ (Lit.note :> <<>>)
        @@ (Lit.extra_keywords :> Txt.Energy_AI)
        @@ (KeyTags :> <<Lit.West>>) @@ (KeyFilePaths :> <<Txt.documents_a_pdf>>),
      (KeyTitle :> Txt.Audit) @@ (Lit.abstract :> <<>>) @@ (Lit.note :> <<>>)
        @@ (KeyTags :> <<Lit.City>>)
        @@ (KeyFilePaths :> <<Txt.documents_a_pdf, Txt.documents_gone_pdf>>),
      (Lit.note :> Txt.a_green_code) @@ (KeyTags :> <<Lit.City, Lit.West, Lit.City>>) }

\* What extraction yields for the stored files; a file missing here cannot be
\* read, which extraction turns into ''
FileTexts ==
    { (Txt.AIPolicies_db_documents_a_pdf :> Txt.budget_nl_rules)
        @@ (Txt.AIPolicies_db_documents_b_HTML :> Txt.Net_Zero_goals)
        @@ (Txt.AIPolicies_db_documents_c_txt :> Lit.climate),
      (Txt.AIPolicies_db_documents_a_pdf :> Txt.Emission_rules) }

\* state_city_tags and region_tags of main()
FilterSets ==
    { {Lit.State, Lit.City},
      {Lit.Midwest2, Lit.Northeast, Lit.Pacific, Lit.South, Lit.West} }

StatInit ==
    /\ spc = "doc"
    /\ documents \in UNION {[1..n -> DocPool] : n \in 0..MaxDocuments}
    /\ file_text \in FileTexts
    /\ doc_i = 1
    /\ search_i = 0
    /\ tag_env_counts = <<>>
    /\ tag_total_counts = <<>>
    /\ extracted = {}
    /\ relevant = FALSE
    /\ filtered = NotFiltered

\* for doc in documents: the totals of the document's tags are counted and
\* document_references_environment(doc) is called
StatTotals ==
    /\ spc = "doc"
    /\ doc_i <= Len(documents)
    /\ tag_total_counts' = TotalCounts(tag_total_counts, documents[doc_i])
    /\ search_i' = 1
    /\ spc' = "metadata"
    /\ UNCHANGED <<documents, file_text, doc_i, tag_env_counts, extracted, relevant, filtered>>
    /\ UNCHANGED <<tagVars, assocVars, buildVars>>

\* for field in SEARCH_FIELDS: one iteration; a keyword in the field returns True
ClassifyField ==
    /\ spc = "metadata"
    /\ search_i <= Len(SEARCH_FIELDS)
    /\ IF FieldMatches(documents[doc_i], SEARCH_FIELDS[search_i])
       THEN relevant' = TRUE /\ spc' = "classified" /\ UNCHANGED search_i
       ELSE search_i' = search_i + 1 /\ UNCHANGED <<relevant, spc>>
    /\ UNCHANGED <<documents, file_text, doc_i, tag_env_counts, tag_total_counts,
                   extracted, filtered>>
    /\ UNCHANGED <<tagVars, assocVars, buildVars>>

\* if file_paths: the full text is extracted and scanned
ClassifyFulltext ==
    /\ spc = "metadata"
    /\ search_i > Len(SEARCH_FIELDS)
    /\ Get(documents[doc_i], KeyFilePaths, <<>>) # <<>>
    /\ extracted' = extracted \cup {doc_i}
    /\ relevant' = HasKeyword(Lower(ExtractFulltextFromFiles(
                        file_text, Get(documents[doc_i], KeyFilePaths, <<>>))))
    /\ spc' = "classified"
    /\ UNCHANGED <<documents, file_text, doc_i, search_i, tag_env_counts,
                   tag_total_counts, filtered>>
    /\ UNCHANGED <<tagVars, assocVars, buildVars>>

\* No keyword in the metadata and no file: return False
ClassifyNoFiles ==
    /\ spc = "metadata"
    /\ search_i > Len(SEARCH_FIELDS)
    /\ Get(documents[doc_i], KeyFilePaths, <<>>) = <<>>
    /\ relevant' = FALSE
    /\ spc' = "classified"
    /\ UNCHANGED <<documents, file_text, doc_i, search_i, tag_env_counts,
                   tag_total_counts, extracted, filtered>>
    /\ UNCHANGED <<tagVars, assocVars, buildVars>>

\* Back in group_stats_by_tag: the relevant counts of the document's tags
StatEnv ==
    /\ spc = "classified"
    /\ tag_env_counts' = EnvCounts(tag_env_counts, documents[doc_i], relevant)
    /\ doc_i' = doc_i + 1
    /\ spc' = "doc"
    /\ UNCHANGED <<documents, file_text, search_i, tag_total_counts, extracted,
                   relevant, filtered>>
    /\ UNCHANGED <<tagVars, assocVars, buildVars>>

\* return tag_env_counts, tag_total_counts
StatReturn ==
    /\ spc = "doc"
    /\ doc_i > Len(documents)
    /\ spc' = "returned"
    /\ UNCHANGED <<documents, file_text, doc_i, search_i, tag_env_counts,
                   tag_total_counts, extracted, relevant, filtered>>
    /\ UNCHANGED <<tagVars, assocVars, buildVars>>

\* filter_tags on the two mappings returned
StatFilter ==
    /\ spc = "returned"
    /\ \E filter_set \in FilterSets :
          filtered' = FilterTags(tag_env_counts, tag_total_counts, filter_set)
    /\ spc' = "filtered"
    /\ UNCHANGED <<documents, file_text, doc_i, search_i, tag_env_counts,
                   tag_total_counts, extracted, relevant>>
    /\ UNCHANGED <<tagVars, assocVars, buildVars>>

StatNext ==
    \/ StatTotals \/ ClassifyField \/ ClassifyFulltext \/ ClassifyNoFiles
    \/ StatEnv \/ StatReturn \/ StatFilter

InitStat == StatInit /\ TagsIdle /\ AssocIdle /\ BuildIdle

SpecStat == InitStat /\ [][StatNext]_vars

(***************************************************************************)
(* Properties of the analysis                                              *)
(***************************************************************************)

CountsOrdered(env_counts, total_counts) ==
    \A tag \in DOMAIN env_counts \cup DOMAIN total_counts :
        Get(env_counts, tag, 0) <= Get(total_counts, tag, 0)

\* C7: in the mappings of group_stats_by_tag, and in those filter_tags makes
\* of them, every tag has relevant_count <= total_count, a tag absent from a
\* mapping counting as 0.
C7_RelevantAtMostTotal ==
    /\ CountsOrdered(tag_env_counts, tag_total_counts)
    /\ spc = "filtered" => CountsOrdered(filtered.env, filtered.total)

\* Filtered mappings of a library with a repeated tag and an empty tag list,
\* where some tag is relevant in some but not all of its documents
C7_Witness ==
    /\ spc = "filtered"
    /\ \E k \in DOMAIN documents : documents[k][KeyTags] = <<>>
    /\ \E k \in DOMAIN documents :
          Len(documents[k][KeyTags]) > Cardinality(Range(documents[k][KeyTags]))
    /\ \E tag \in DOMAIN filtered.env :
          filtered.env[tag] >= 2 /\ filtered.env[tag] < filtered.total[tag]

\* Some keyword occurs, in any letter case, in one of the SEARCH_FIELDS
MetadataHasKeyword(doc) ==
    \E f \in DOMAIN SEARCH_FIELDS, k \in DOMAIN KEYWORDS :
        /\ SEARCH_FIELDS[f] \in DOMAIN doc
        /\ Contains(Lower(doc[SEARCH_FIELDS[f]]), KEYWORDS[k])

\* C10: a document with a keyword in title, abstract, note or extra_keywords
\* is classified relevant and full-text extraction is never invoked for it;
\* extraction is invoked only once every metadata field was scanned.
C10_MetadataShortCircuits ==
    /\ \A j \in extracted : ~MetadataHasKeyword(documents[j])
    /\ (spc = "classified" /\ MetadataHasKeyword(documents[doc_i]))
          => (relevant /\ doc_i \notin extracted)
    /\ (spc = "classified" /\ doc_i \in extracted) => search_i > Len(SEARCH_FIELDS)

\* "Carbon" in the title, files whose text holds no keyword: relevant, and
\* nothing was extracted
C10_Witness ==
    /\ spc = "classified"
    /\ Contains(Lower(Get(documents[doc_i], KeyTitle, <<>>)), Lit.carbon)
    /\ Get(documents[doc_i], KeyFilePaths, <<>>) # <<>>
    /\ ~HasKeyword(Lower(ExtractFulltextFromFiles(file_text, documents[doc_i][KeyFilePaths])))
    /\ relevant
    /\ extracted = {}

====
